---- MODULE Spec2Model ----
(***************************************************************************)
(* A model of aurora's bounded shared-buffer channel (src/channel/mod.rs), *)
(* its record types (src/aurora.rs) and the stages built on it.            *)
(*                                                                         *)
(* Every atomic access to the shared Channel<T> (an atomic load, a         *)
(* fetch_add, a semaphore acquire or release) is one step, so that every   *)
(* interleaving of the producer thread and the consumer thread is          *)
(* explored.  The closures handed to write and read run in steps of their  *)
(* own, between the index fetch and the semaphore release.                 *)
(***************************************************************************)
EXTENDS Integers, Sequences, FiniteSets, TLC

\* ------------------------------------------------------------------ bounds
\* largest capacity handed to create
MaxCap == 3
\* number of writes the generic producer may start while its peer is alive
MaxWrites == 4
\* number of writes that reuse the one slot of ReuseSpec
MaxReuse == 3
\* longest data of a record fed to the stream reader
MaxLen == 2
\* number of records fed to the stream reader
MaxRecords == 2
\* number of calls made on the stream reader
MaxCalls == 2

\* the longest input handed to a Buffer
MaxInput == 3

\* the largest chunk size of a Buffer
MaxChunk == 2

\* the most try_read / try_skip / read / skip calls of the reader of ReaderSpec
MaxTries == 3

\* ------------------------------------------------------------------ state
VARIABLES
  channel,          \* [Chans -> Channel<T>]: the shared object of each channel
  wpc,              \* [Chans -> position of the producer endpoint in Sink::write]
  rpc,              \* [Chans -> position of the consumer endpoint in Source::read]
  woff,             \* [Chans -> `offset` of the write in progress]
  roff,             \* [Chans -> `offset` of the read in progress]
  seen,             \* [Chans -> what the observer in progress has read so far]
  emitted,          \* history: the records as the returned mutators left them
  observed,         \* history: the records as the returned observers saw them
  reads_after_drop, \* history: reads called after the producer endpoint dropped
  run,              \* the locals of the `run` of each stage of the pipeline
  slot,             \* ReuseSpec: one slot's record and the capacity of its data Vec
  feed,             \* StreamSpec: the records the producer of the stream emits
  stream,           \* StreamSpec: the fields of the Stream
  bitstream,        \* StreamSpec: cache and cache_length of the Bitstream
  call,             \* StreamSpec: the call in progress on the Stream or Bitstream
  returned,         \* history: the calls that have ended, with their results
  buf,              \* BufferSpec: the fields of the Buffer and the locals of its run
  quota             \* ProgressSpec: the writes and the reads each endpoint performs

\* the variables of ReuseSpec and StreamSpec, which Spec and PipeSpec leave alone
svars == <<slot, feed, stream, bitstream, call, returned>>

\* the variables of BufferSpec and ProgressSpec
bvars == <<buf, quota>>

vars == <<channel, wpc, rpc, woff, roff, seen, emitted, observed, reads_after_drop, run, svars, bvars>>

\* The two channels of a pipeline.  The generic producer and consumer of Spec
\* use the Binary one.
Chans == {"audio", "binary"}

\* ------------------------------------------------------------ record types
\* impl Initialize for Binary: initialize
BinaryInitialize == [last |-> FALSE, data |-> <<>>]

\* impl Initialize for Binary: reinitialize (truncate(0) empties the data)
BinaryReinitialize(b) == [b EXCEPT !.last = FALSE, !.data = <<>>]

\* enum SampleType { Unknown, Unsigned(usize), Signed(usize), Float(usize) }
Unknown == [tag |-> "Unknown", bits |-> 0]
Unsigned(n) == [tag |-> "Unsigned", bits |-> n]
Signed(n) == [tag |-> "Signed", bits |-> n]
Float(n) == [tag |-> "Float", bits |-> n]

\* sample_type::size
size(t) == IF t.tag = "Unknown" THEN 0 ELSE t.bits

\* An f64 is held as the 8 bytes of its IEEE-754 bit pattern, most
\* significant byte first: 0.0 and 44100.0.
F64Zero == <<0, 0, 0, 0, 0, 0, 0, 0>>
F64SampleRate == <<64, 229, 136, 128, 0, 0, 0, 0>>

\* impl Initialize for Audio: initialize
AudioInitialize ==
  [last |-> FALSE, channels |-> 0, sample_rate |-> F64Zero, endian |-> "Big",
   sample_type |-> Unknown, data |-> <<>>]

\* impl Initialize for Audio: reinitialize
AudioReinitialize(a) ==
  [a EXCEPT !.last = FALSE, !.channels = 0, !.sample_rate = F64Zero, !.endian = "Big",
            !.sample_type = Unknown, !.data = <<>>]

\* T::initialize() for the record type T of channel c
initialize(c) == IF c = "audio" THEN AudioInitialize ELSE BinaryInitialize

\* mutant: reinitialize leaves the record as its previous use left it
ReinitializeSkipped(c, rec) == rec

\* data.reinitialize() for the record type T of channel c
reinitialize(c, rec) ==
  IF c = "audio" THEN AudioReinitialize(rec) ELSE BinaryReinitialize(rec)

\* ----------------------------------------------------------------- create
\* mutant: not_empty starts with as many permits as not_full
NotEmptyPermitsFull(capacity) == capacity

\* Semaphore::new(0) for not_empty
NotEmptyPermits(capacity) == 0

\* mutant: one permit too many in not_full
NotFullPermitsOffByOne(capacity) == capacity + 1

\* Semaphore::new(capacity as isize) for not_full
NotFullPermits(capacity) == capacity

\* channel::create::<T>(capacity): every capacity yields a channel; there is
\* no check of the argument.  allocate(0, ..) hands back a pointer that is
\* never dereferenced, since the loop over 0..capacity is empty.
create(c, capacity) ==
  [rc_read |-> 1, rc_write |-> 1,
   data |-> [offset \in 0..(capacity - 1) |-> initialize(c)],
   capacity |-> capacity,
   read |-> 0, write |-> 0,
   not_empty |-> NotEmptyPermits(capacity),
   not_full |-> NotFullPermits(capacity)]

\* ------------------------------------------------------------- Sink::write
\* the slot of an index: fetch_add(1) % capacity
SlotOf(index, capacity) == index % capacity

\* The caller enters write.
CallWrite(c) ==
  /\ wpc[c] = "idle"
  /\ wpc' = [wpc EXCEPT ![c] = "check"]

\* mutant: write tests its own side's count, rc_write, instead of rc_read
WriteCheckWrongCounter(c) ==
  /\ wpc[c] = "check"
  /\ wpc' = [wpc EXCEPT ![c] = IF channel[c].rc_write = 0 THEN "panic" ELSE "acquire"]
  /\ UNCHANGED <<channel, rpc, woff, roff, seen, emitted, observed, reads_after_drop, run, svars, bvars>>

\* mutant: write tests rc_read after it has taken its permit of not_full
WriteCheckAfterAcquire(c) ==
  /\ wpc[c] = "check"
  /\ IF channel[c].rc_read = 0
       THEN /\ channel[c].not_full > 0
            /\ channel' = [channel EXCEPT ![c].not_full = @ - 1]
            /\ wpc' = [wpc EXCEPT ![c] = "panic"]
       ELSE /\ wpc' = [wpc EXCEPT ![c] = "acquire"]
            /\ UNCHANGED channel
  /\ UNCHANGED <<rpc, woff, roff, seen, emitted, observed, reads_after_drop, run, svars, bvars>>

\* if rc_read.load() == 0 { panic!(..) }
WriteCheck(c) ==
  /\ wpc[c] = "check"
  /\ wpc' = [wpc EXCEPT ![c] = IF channel[c].rc_read = 0 THEN "panic" ELSE "acquire"]
  /\ UNCHANGED <<channel, rpc, woff, roff, seen, emitted, observed, reads_after_drop, run, svars, bvars>>

\* not_full.acquire(): blocks while there is no permit
WriteAcquire(c) ==
  /\ wpc[c] = "acquire"
  /\ channel[c].not_full > 0
  /\ channel' = [channel EXCEPT ![c].not_full = @ - 1]
  /\ wpc' = [wpc EXCEPT ![c] = "fetch"]
  /\ UNCHANGED <<rpc, woff, roff, seen, emitted, observed, reads_after_drop, run, svars, bvars>>

\* let offset = write.fetch_add(1) % capacity (a remainder by 0 panics)
WriteFetch(c) ==
  /\ wpc[c] = "fetch"
  /\ channel' = [channel EXCEPT ![c].write = @ + 1]
  /\ IF channel[c].capacity = 0
       THEN wpc' = [wpc EXCEPT ![c] = "panic"] /\ UNCHANGED woff
       ELSE /\ woff' = [woff EXCEPT ![c] = SlotOf(channel[c].write, channel[c].capacity)]
            /\ wpc' = [wpc EXCEPT ![c] = "reinit"]
  /\ UNCHANGED <<rpc, roff, seen, emitted, observed, reads_after_drop, run, svars, bvars>>

\* data.reinitialize(); the mutator f(data) runs next
WriteReinit(c) ==
  /\ wpc[c] = "reinit"
  /\ channel' = [channel EXCEPT ![c].data[woff[c]] = reinitialize(c, @)]
  /\ wpc' = [wpc EXCEPT ![c] = "mutate"]
  /\ UNCHANGED <<rpc, woff, roff, seen, emitted, observed, reads_after_drop, run, svars, bvars>>

\* not_empty.release(); write returns
WriteRelease(c) ==
  /\ wpc[c] = "release"
  /\ channel' = [channel EXCEPT ![c].not_empty = @ + 1]
  /\ wpc' = [wpc EXCEPT ![c] = "idle"]
  /\ UNCHANGED <<rpc, woff, roff, seen, emitted, observed, reads_after_drop, run, svars, bvars>>

\* impl Drop for Sink: rc_write.fetch_sub(1).  The endpoint is dropped by its
\* owner, or by the unwinding of a panic ("failed").
SinkDrop(c) ==
  /\ channel' = [channel EXCEPT ![c].rc_write = @ - 1]
  /\ wpc' = [wpc EXCEPT ![c] = IF wpc[c] = "panic" THEN "failed" ELSE "dropped"]

\* ------------------------------------------------------------ Source::read
\* The caller enters read.
CallRead(c) ==
  /\ rpc[c] = "idle"
  /\ rpc' = [rpc EXCEPT ![c] = "check"]
  /\ reads_after_drop' =
       [reads_after_drop EXCEPT ![c] = IF channel[c].rc_write = 0 THEN @ + 1 ELSE @]

\* if rc_write.load() == 0 { .. }
ReadCheck(c) ==
  /\ rpc[c] = "check"
  /\ rpc' = [rpc EXCEPT ![c] = IF channel[c].rc_write = 0 THEN "check_empty" ELSE "acquire"]
  /\ UNCHANGED <<channel, wpc, woff, roff, seen, emitted, observed, reads_after_drop, run, svars, bvars>>

\* mutant: read panics as soon as the producer is gone, buffered records or not
ReadCheckEmptyAlwaysFails(c) ==
  /\ rpc[c] = "check_empty"
  /\ rpc' = [rpc EXCEPT ![c] = "panic"]
  /\ UNCHANGED <<channel, wpc, woff, roff, seen, emitted, observed, reads_after_drop, run, svars, bvars>>

\* if read.load() == write.load() { panic!(..) }
ReadCheckEmpty(c) ==
  /\ rpc[c] = "check_empty"
  /\ rpc' = [rpc EXCEPT ![c] = IF channel[c].read = channel[c].write THEN "panic" ELSE "acquire"]
  /\ UNCHANGED <<channel, wpc, woff, roff, seen, emitted, observed, reads_after_drop, run, svars, bvars>>

\* not_empty.acquire(): blocks while there is no permit
ReadAcquire(c) ==
  /\ rpc[c] = "acquire"
  /\ channel[c].not_empty > 0
  /\ channel' = [channel EXCEPT ![c].not_empty = @ - 1]
  /\ rpc' = [rpc EXCEPT ![c] = "fetch"]
  /\ UNCHANGED <<wpc, woff, roff, seen, emitted, observed, reads_after_drop, run, svars, bvars>>

\* mutant: the read index is loaded, not incremented
ReadFetchNoAdvance(c) ==
  /\ rpc[c] = "fetch"
  /\ channel[c].capacity > 0
  /\ roff' = [roff EXCEPT ![c] = SlotOf(channel[c].read, channel[c].capacity)]
  /\ rpc' = [rpc EXCEPT ![c] = "observe"]
  /\ UNCHANGED <<channel, wpc, woff, seen, emitted, observed, reads_after_drop, run, svars, bvars>>

\* let offset = read.fetch_add(1) % capacity (a remainder by 0 panics); the
\* observer f(data) runs next
ReadFetch(c) ==
  /\ rpc[c] = "fetch"
  /\ channel' = [channel EXCEPT ![c].read = @ + 1]
  /\ IF channel[c].capacity = 0
       THEN rpc' = [rpc EXCEPT ![c] = "panic"] /\ UNCHANGED roff
       ELSE /\ roff' = [roff EXCEPT ![c] = SlotOf(channel[c].read, channel[c].capacity)]
            /\ rpc' = [rpc EXCEPT ![c] = "observe"]
  /\ UNCHANGED <<wpc, woff, seen, emitted, observed, reads_after_drop, run, svars, bvars>>

\* mutant: read returns without releasing a permit to not_full
ReadReleaseForgotten(c) ==
  /\ rpc[c] = "release"
  /\ rpc' = [rpc EXCEPT ![c] = "idle"]
  /\ UNCHANGED <<channel, wpc, woff, roff, seen, emitted, observed, reads_after_drop, run, svars, bvars>>

\* not_full.release(); read returns
ReadRelease(c) ==
  /\ rpc[c] = "release"
  /\ channel' = [channel EXCEPT ![c].not_full = @ + 1]
  /\ rpc' = [rpc EXCEPT ![c] = "idle"]
  /\ UNCHANGED <<wpc, woff, roff, seen, emitted, observed, reads_after_drop, run, svars, bvars>>

\* impl Drop for Source: rc_read.fetch_sub(1).  The endpoint is dropped by
\* its owner, or by the unwinding of a panic: of read itself ("failed") or of
\* the observer of the generic consumer ("unwound").
SourceDrop(c) ==
  /\ channel' = [channel EXCEPT ![c].rc_read = @ - 1]
  /\ rpc' = [rpc EXCEPT ![c] = CASE rpc[c] = "panic" -> "failed"
                                  [] rpc[c] = "unwind" -> "unwound"
                                  [] OTHER -> "dropped"]

\* The locals of the stages as their `run` begins: `last` of the audio
\* producer (which declares sample_type), `first`, `last` and the number of
\* the write in progress of caf::Muxer::run, `last` of stdout::Output::run.
RunNew(sample_type) ==
  [src |-> [last |-> FALSE, sample_type |-> sample_type],
   mux |-> [first |-> TRUE, last |-> FALSE, step |-> 0, error |-> "none"],
   out |-> [last |-> FALSE, error |-> "none"]]

\* ------------------------------------------- a producer and a consumer
\* The channel the generic producer and consumer share.
G == "binary"

\* What the generic mutator may put into the record of the k-th write.
Payloads(k) == {<<k>>, <<k, k>>}

ProducerCall ==
  /\ channel[G].write < MaxWrites
  /\ CallWrite(G)
  /\ UNCHANGED <<channel, rpc, woff, roff, seen, emitted, observed, reads_after_drop, run, svars, bvars>>

\* The mutator fills the data of the slot ...
ProducerMutateData ==
  /\ wpc[G] = "mutate"
  /\ \E d \in Payloads(channel[G].write) :
       channel' = [channel EXCEPT ![G].data[woff[G]].data = d]
  /\ wpc' = [wpc EXCEPT ![G] = "mutate_last"]
  /\ UNCHANGED <<rpc, woff, roff, seen, emitted, observed, reads_after_drop, run, svars, bvars>>

\* ... then sets the terminal flag, and returns.
ProducerMutateLast ==
  /\ wpc[G] = "mutate_last"
  /\ \E l \in BOOLEAN :
       /\ channel' = [channel EXCEPT ![G].data[woff[G]].last = l]
       /\ emitted' = [emitted EXCEPT ![G] = Append(@, channel'[G].data[woff[G]])]
  /\ wpc' = [wpc EXCEPT ![G] = "release"]
  /\ UNCHANGED <<rpc, woff, roff, seen, observed, reads_after_drop, run, svars, bvars>>

\* The producer endpoint goes out of scope between two writes, or is dropped
\* by the unwinding of the panic of write.
ProducerDrop ==
  /\ wpc[G] \in {"idle", "panic"}
  /\ SinkDrop(G)
  /\ UNCHANGED <<rpc, woff, roff, seen, emitted, observed, reads_after_drop, run, svars, bvars>>

ConsumerCall ==
  /\ CallRead(G)
  /\ UNCHANGED <<channel, wpc, woff, roff, seen, emitted, observed, run, svars, bvars>>

\* The observer reads the data of the slot ...
ConsumerObserveData ==
  /\ rpc[G] = "observe"
  /\ seen' = [seen EXCEPT ![G] = channel[G].data[roff[G]].data]
  /\ rpc' = [rpc EXCEPT ![G] = "observe_last"]
  /\ UNCHANGED <<channel, wpc, woff, roff, emitted, observed, reads_after_drop, run, svars, bvars>>

\* ... then its terminal flag, and returns.
ConsumerObserveLast ==
  /\ rpc[G] = "observe_last"
  /\ observed' = [observed EXCEPT ![G] =
       Append(@, [last |-> channel[G].data[roff[G]].last, data |-> seen[G]])]
  /\ seen' = [seen EXCEPT ![G] = <<>>]
  /\ rpc' = [rpc EXCEPT ![G] = "release"]
  /\ UNCHANGED <<channel, wpc, woff, roff, emitted, reads_after_drop, run, svars, bvars>>

\* The observer panics, as those of the repository do (caf::Muxer::run on an
\* undeclared format, stdout::Output::run on a failed write, update_buffer
\* on its slice): f(data) does not return, read is left by the unwinding
\* and does not reach not_full.release().
ConsumerObservePanic ==
  /\ rpc[G] \in {"observe", "observe_last"}
  /\ seen' = [seen EXCEPT ![G] = <<>>]
  /\ rpc' = [rpc EXCEPT ![G] = "unwind"]
  /\ UNCHANGED <<channel, wpc, woff, roff, emitted, observed, reads_after_drop, run, svars, bvars>>

\* The consumer endpoint goes out of scope between two reads, or is dropped
\* by the unwinding of a panic of read or of its observer.
ConsumerDrop ==
  /\ rpc[G] \in {"idle", "panic", "unwind"}
  /\ SourceDrop(G)
  /\ UNCHANGED <<wpc, woff, roff, seen, emitted, observed, reads_after_drop, run, svars, bvars>>

\* ------------------------------------------------- the data Vec of a slot
\* Vec::with_capacity(4096) of Binary::initialize and Audio::initialize
DataCapacity == 4096

\* mutant: truncate gives the allocation back, down to the length kept
CapacityShrunk(capacity, len) == len

\* data.truncate(len) drops elements and keeps the allocation: the capacity
\* of the Vec after it
CapacityAfterTruncate(capacity, len) == capacity

\* Vec::reserve(additional) on a Vec of `len` elements: the capacities it may
\* leave.  Nothing changes when the spare room suffices; else the Vec is
\* reallocated to hold at least len + additional elements, exactly that many
\* or the double of the old capacity.
ReserveOutcomes(capacity, len, additional) ==
  IF capacity - len >= additional
    THEN {capacity}
    ELSE {n \in {len + additional, 2 * capacity} : n >= len + additional}

\* One slot of a channel of record type c, after create: its record, the
\* capacity of the record's data Vec, the writes it has been used for.
SlotNew(c) ==
  [kind |-> c, rec |-> initialize(c), capacity |-> DataCapacity,
   pc |-> "idle", writes |-> 0]

\* ---------------------------------------------------------- machine words
\* An unsigned integer of w bits is held as the sequence of its bits, most
\* significant first (a u64 does not fit the integers of the checker).
RECURSIVE Bits(_, _)
Bits(v, w) == IF w = 0 THEN <<>> ELSE Append(Bits(v \div 2, w - 1), v % 2)

\* 0 of w bits
Zero(w) == [i \in 1..w |-> 0]

\* x as u64, x as u32 of a narrower x: zero extension to w bits
Zext(x, w) == Zero(w - Len(x)) \o x

\* x as u32, x as u8 of a wider x: the low w bits
Trunc(x, w) == SubSeq(x, Len(x) - w + 1, Len(x))

\* x | y
Or(x, y) == [i \in 1..Len(x) |-> IF x[i] = 1 \/ y[i] = 1 THEN 1 ELSE 0]

\* x & y
And(x, y) == [i \in 1..Len(x) |-> IF x[i] = 1 /\ y[i] = 1 THEN 1 ELSE 0]

\* x << k, for k below the width of x
Shl(x, k) == [i \in 1..Len(x) |-> IF i + k <= Len(x) THEN x[i + k] ELSE 0]

\* x >> k of an unsigned x, for k below the width of x
Shr(x, k) == [i \in 1..Len(x) |-> IF i - k >= 1 THEN x[i - k] ELSE 0]

\* x >> k of a signed x (as i64): the sign bit is shifted in
Sar(x, k) == [i \in 1..Len(x) |-> IF i - k >= 1 THEN x[i - k] ELSE x[1]]

\* ------------------------------------------------------------ Stream::new
\* Vec::with_capacity(4096) of Stream::new
StreamCapacity == 4096

\* Stream { last: false, position: 0, length: 0, buffer: Vec::with_capacity(4096) }.
\* `buffer` holds the elements of the Vec, so buffer.len() is Len(buffer);
\* `capacity` is the allocation of the Vec.
StreamNew ==
  [last |-> FALSE, position |-> 0, length |-> 0, buffer |-> <<>>,
   capacity |-> StreamCapacity]

\* mutant: the cache is not cleared, with no bit counted in it
BitstreamNewDirty == [cache |-> Bits(255, 8), cache_length |-> 0]

\* Bitstream { cache: 0, cache_length: 0, stream: stream }; cache is a u8
BitstreamNew == [cache |-> Zero(8), cache_length |-> 0]

\* No call in progress on the stream.  Of a call: `op` and its argument `n`;
\* the locals of the loops it runs through (`bytes` and `i` of the loop over
\* read_u8, `result`; `min`, the length `size` of the buffer, `read` and the
\* bytes `out` of read_at_least, or `read` as `skipped` of skip; `eof` and
\* `len` of update_buffer); and what
\* it found: the Stream as it was (`pre`), the bytes the stream had handed
\* out before it (`at`) and up to now (`consumed`), the records it pulled.
CallNew ==
  [pc |-> "idle", op |-> "none", n |-> 0, bytes |-> 0, i |-> 0, result |-> Zero(64),
   min |-> 0, size |-> 0, read |-> 0, out |-> <<>>, eof |-> FALSE, len |-> 0,
   pre |-> StreamNew, at |-> 0, consumed |-> 0, pulled |-> <<>>]

\* the state Spec and PipeSpec leave the slot and the stream reader in
ReuseIdle == slot = SlotNew("binary")
StreamIdle ==
  /\ feed = <<>>
  /\ stream = StreamNew
  /\ bitstream = BitstreamNew
  /\ call = CallNew
  /\ returned = <<>>

\* Buffer::new(buffer, chunk, sink), and the locals of run as it begins
\* (let mut last = false)
BufferNew(buffer, chunk) ==
  [buffer |-> buffer, position |-> 0, chunk |-> chunk, last |-> FALSE,
   write_len |-> 0, start |-> 0, end |-> 0, pc |-> "top"]

\* the state of the Buffer and of the quota in a specification without them
BufferIdle ==
  /\ buf = BufferNew(<<>>, 0)
  /\ quota = 0

\* ---------------------------------------------------------- specification
\* The state after create(capacity), for every capacity the caller can pass.
Init ==
  /\ \E capacity \in 0..MaxCap :
       channel = [c \in Chans |-> create(c, IF c = G THEN capacity ELSE 1)]
  /\ wpc = [c \in Chans |-> "idle"]
  /\ rpc = [c \in Chans |-> "idle"]
  /\ woff = [c \in Chans |-> 0]
  /\ roff = [c \in Chans |-> 0]
  /\ seen = [c \in Chans |-> <<>>]
  /\ emitted = [c \in Chans |-> <<>>]
  /\ observed = [c \in Chans |-> <<>>]
  /\ reads_after_drop = [c \in Chans |-> 0]
  /\ run = RunNew(Unknown)
  /\ ReuseIdle
  /\ StreamIdle
  /\ BufferIdle

Producer ==
  \/ ProducerCall
  \/ WriteCheck(G)
  \/ WriteAcquire(G)
  \/ WriteFetch(G)
  \/ WriteReinit(G)
  \/ ProducerMutateData
  \/ ProducerMutateLast
  \/ WriteRelease(G)
  \/ ProducerDrop

Consumer ==
  \/ ConsumerCall
  \/ ReadCheck(G)
  \/ ReadCheckEmpty(G)
  \/ ReadAcquire(G)
  \/ ReadFetch(G)
  \/ ConsumerObserveData
  \/ ConsumerObserveLast
  \/ ReadRelease(G)
  \/ ConsumerDrop

\* In Spec the observer of the consumer returns or panics.
Next == Producer \/ Consumer \/ ConsumerObservePanic

Spec == Init /\ [][Next]_vars

\* ------------------------------------------------------------ the pipeline
\* A linear pipeline: an audio producer -> "audio" channel -> caf::Muxer ->
\* "binary" channel -> stdout::Output, each stage on a thread of its own.
A == "audio"
B == "binary"

\* x.to_be() laid out in memory: the `width` bytes of n, most significant first
RECURSIVE to_be(_, _)
to_be(n, width) ==
  IF width = 0 THEN <<>> ELSE Append(to_be(n \div 256, width - 1), n % 256)

\* Vec::grow(n, value): n copies of value are appended
grow(d, n, value) == d \o [i \in 1..n |-> value]

\* slice::bytes::copy_memory(dst, src): src overwrites the head of dst
copy_memory(dst, src) == [i \in 1..Len(dst) |-> IF i <= Len(src) THEN src[i] ELSE dst[i]]

\* b"caff", b"desc", b"lpcm", b"data"
Caff == <<99, 97, 102, 102>>
Desc == <<100, 101, 115, 99>>
Lpcm == <<108, 112, 99, 109>>
Data == <<100, 97, 116, 97>>

\* mutant: the file header without its flags field
FileHeaderNoFlags == Caff \o to_be(1, 2)

\* the first write of Muxer::run: the file header
FileHeader == Caff \o to_be(1, 2) \o to_be(0, 2)

\* format_flags: 1 for Float, 2 for Little
FormatFlags(audio) ==
  (IF audio.sample_type.tag = "Float" THEN 1 ELSE 0)
  + (IF audio.endian = "Little" THEN 2 ELSE 0)

\* the second write of Muxer::run: the audio description chunk
DescriptionChunk(audio) ==
  Desc \o to_be(32, 8) \o audio.sample_rate \o Lpcm
  \o to_be(FormatFlags(audio), 4)
  \o to_be((size(audio.sample_type) * audio.channels) \div 8, 4)
  \o to_be(1, 4)
  \o to_be(audio.channels, 4)
  \o to_be(size(audio.sample_type), 4)

\* the third write of Muxer::run: the data chunk header
DataHeader == Data \o <<255, 255, 255, 255, 255, 255, 255, 255>>

\* ---- the audio producer: while !last { sink.write(..) }
SrcCall ==
  /\ ~run.src.last
  /\ CallWrite(A)
  /\ UNCHANGED <<channel, rpc, woff, roff, seen, emitted, observed, reads_after_drop, run, svars, bvars>>

\* Its mutator declares the format and fills the record; the producer decides
\* whether the record is the last one.
SrcMutate ==
  /\ wpc[A] = "mutate"
  /\ \E l \in BOOLEAN :
       /\ l \/ channel[A].write < MaxWrites
       /\ channel' = [channel EXCEPT ![A].data[woff[A]] =
            [last |-> l, channels |-> 2, sample_rate |-> F64SampleRate,
             endian |-> "Little", sample_type |-> run.src.sample_type,
             data |-> <<channel[A].write>>]]
       /\ run' = [run EXCEPT !.src.last = l]
  /\ emitted' = [emitted EXCEPT ![A] = Append(@, channel'[A].data[woff[A]])]
  /\ wpc' = [wpc EXCEPT ![A] = "release"]
  /\ UNCHANGED <<rpc, woff, roff, seen, observed, reads_after_drop, svars, bvars>>

\* run returns after the last record, or write panicked: the Sink is dropped.
SrcDrop ==
  /\ (wpc[A] = "idle" /\ run.src.last) \/ wpc[A] = "panic"
  /\ SinkDrop(A)
  /\ UNCHANGED <<rpc, woff, roff, seen, emitted, observed, reads_after_drop, run, svars, bvars>>

\* ---- caf::Muxer::run: while !last { source.read(|audio| ..) }
MuxCall ==
  /\ ~run.mux.last
  /\ CallRead(A)
  /\ UNCHANGED <<channel, wpc, woff, roff, seen, emitted, observed, run, svars, bvars>>

\* mutant: the observer does not test the sample type of the first record
MuxObserveUnchecked ==
  /\ rpc[A] = "observe"
  /\ run.mux.step = 0
  /\ LET audio == channel[A].data[roff[A]] IN
       /\ CallWrite(B)
       /\ run' = IF run.mux.first
                   THEN [run EXCEPT !.mux.step = 1]
                   ELSE [run EXCEPT !.mux.step = 4, !.mux.last = audio.last]
       /\ UNCHANGED rpc
  /\ UNCHANGED <<channel, woff, roff, seen, emitted, observed, reads_after_drop, svars, bvars>>

\* The observer starts: on the first record an Unknown sample type panics,
\* else the first of the three framing writes is called; on a later record
\* `last = audio.last` and the payload write is called.
MuxObserve ==
  /\ rpc[A] = "observe"
  /\ run.mux.step = 0
  /\ LET audio == channel[A].data[roff[A]] IN
       IF run.mux.first /\ audio.sample_type = Unknown
         THEN /\ rpc' = [rpc EXCEPT ![A] = "panic"]
              /\ run' = [run EXCEPT !.mux.error = "FormatUndeclared"]
              /\ UNCHANGED wpc
         ELSE /\ CallWrite(B)
              /\ run' = IF run.mux.first
                          THEN [run EXCEPT !.mux.step = 1]
                          ELSE [run EXCEPT !.mux.step = 4, !.mux.last = audio.last]
              /\ UNCHANGED rpc
  /\ UNCHANGED <<channel, woff, roff, seen, emitted, observed, reads_after_drop, svars, bvars>>

\* The mutator of the write in progress: the three framing records, then the
\* payload, a copy of audio.data with binary.last = last.
MuxMutate ==
  /\ wpc[B] = "mutate"
  /\ LET audio == channel[A].data[roff[A]]
         bytes == CASE run.mux.step = 1 -> FileHeader
                    [] run.mux.step = 2 -> DescriptionChunk(audio)
                    [] run.mux.step = 3 -> DataHeader
                    [] OTHER -> audio.data
         flag == IF run.mux.step = 4 THEN run.mux.last ELSE channel[B].data[woff[B]].last
     IN channel' = [channel EXCEPT ![B].data[woff[B]] =
          [last |-> flag, data |-> copy_memory(grow(@.data, Len(bytes), 0), bytes)]]
  /\ emitted' = [emitted EXCEPT ![B] = Append(@, channel'[B].data[woff[B]])]
  /\ wpc' = [wpc EXCEPT ![B] = "release"]
  /\ UNCHANGED <<rpc, woff, roff, seen, observed, reads_after_drop, run, svars, bvars>>

\* A write of the observer has returned: the next one is called (after the
\* third, first = false and last = audio.last); after the payload write the
\* observer returns.
MuxContinue ==
  /\ rpc[A] = "observe"
  /\ run.mux.step \in 1..4
  /\ wpc[B] = "idle"
  /\ LET audio == channel[A].data[roff[A]] IN
       IF run.mux.step = 4
         THEN /\ rpc' = [rpc EXCEPT ![A] = "release"]
              /\ observed' = [observed EXCEPT ![A] = Append(@, audio)]
              /\ run' = [run EXCEPT !.mux.step = 0]
              /\ UNCHANGED wpc
         ELSE /\ CallWrite(B)
              /\ run' = IF run.mux.step = 3
                          THEN [run EXCEPT !.mux.step = 4, !.mux.first = FALSE,
                                           !.mux.last = audio.last]
                          ELSE [run EXCEPT !.mux.step = @ + 1]
              /\ UNCHANGED <<rpc, observed, svars, bvars>>
  /\ UNCHANGED <<channel, woff, roff, seen, emitted, reads_after_drop, svars, bvars>>

\* run returns after the last record, or a panic (of read, of the observer
\* or of a write inside it) unwinds: the fields of the Muxer are dropped in
\* the order of their declaration, source first ...
MuxDropSource ==
  /\ \/ rpc[A] = "idle" /\ run.mux.last
     \/ rpc[A] = "panic"
     \/ rpc[A] = "observe" /\ wpc[B] = "panic"
  /\ SourceDrop(A)
  /\ UNCHANGED <<wpc, woff, roff, seen, emitted, observed, reads_after_drop, run, svars, bvars>>

\* ... then sink.
MuxDropSink ==
  /\ rpc[A] \in {"dropped", "failed"}
  /\ wpc[B] \in {"idle", "panic"}
  /\ SinkDrop(B)
  /\ UNCHANGED <<rpc, woff, roff, seen, emitted, observed, reads_after_drop, run, svars, bvars>>

\* ---- stdout::Output::run: while !last { source.read(|binary| ..) }
\* (file::Output::run is the same loop, writing to a file)
OutCall ==
  /\ ~run.out.last
  /\ CallRead(B)
  /\ UNCHANGED <<channel, wpc, woff, roff, seen, emitted, observed, run, svars, bvars>>

\* stdout.write(&binary.data).unwrap(); last = binary.last.  The write to
\* standard output succeeds, or returns Err (a closed pipe) and unwrap
\* panics inside the observer: nothing is put out, last is not set and read
\* does not reach not_full.release().
OutObserve ==
  /\ rpc[B] = "observe"
  /\ \/ /\ observed' = [observed EXCEPT ![B] = Append(@, channel[B].data[roff[B]])]
        /\ run' = [run EXCEPT !.out.last = channel[B].data[roff[B]].last]
        /\ rpc' = [rpc EXCEPT ![B] = "release"]
     \/ /\ run' = [run EXCEPT !.out.error = "Io"]
        /\ rpc' = [rpc EXCEPT ![B] = "panic"]
        /\ UNCHANGED observed
  /\ UNCHANGED <<channel, wpc, woff, roff, seen, emitted, reads_after_drop, svars, bvars>>

\* run returns after the last record, or read or its observer panicked: the
\* Source is dropped.
OutDrop ==
  /\ (rpc[B] = "idle" /\ run.out.last) \/ rpc[B] = "panic"
  /\ SourceDrop(B)
  /\ UNCHANGED <<wpc, woff, roff, seen, emitted, observed, reads_after_drop, run, svars, bvars>>

\* The state after both channels are created (capacities >= 1) and the
\* stages are spawned; the producer declares a sample type, or none.
PipeInit ==
  /\ \E ca \in 1..MaxCap, cb \in 1..MaxCap :
       channel = [c \in Chans |-> create(c, IF c = A THEN ca ELSE cb)]
  /\ wpc = [c \in Chans |-> "idle"]
  /\ rpc = [c \in Chans |-> "idle"]
  /\ woff = [c \in Chans |-> 0]
  /\ roff = [c \in Chans |-> 0]
  /\ seen = [c \in Chans |-> <<>>]
  /\ emitted = [c \in Chans |-> <<>>]
  /\ observed = [c \in Chans |-> <<>>]
  /\ reads_after_drop = [c \in Chans |-> 0]
  /\ \E t \in {Unknown, Signed(16)} : run = RunNew(t)
  /\ ReuseIdle
  /\ StreamIdle
  /\ BufferIdle

SrcStage ==
  \/ SrcCall
  \/ SrcMutate
  \/ SrcDrop

MuxStage ==
  \/ MuxCall
  \/ MuxObserve
  \/ MuxMutate
  \/ MuxContinue
  \/ MuxDropSource
  \/ MuxDropSink

OutStage ==
  \/ OutCall
  \/ OutObserve
  \/ OutDrop

\* the steps of Sink::write and Source::read on either channel
ChannelStep ==
  \E c \in Chans :
    \/ WriteCheck(c)
    \/ WriteAcquire(c)
    \/ WriteFetch(c)
    \/ WriteReinit(c)
    \/ WriteRelease(c)
    \/ ReadCheck(c)
    \/ ReadCheckEmpty(c)
    \/ ReadAcquire(c)
    \/ ReadFetch(c)
    \/ ReadRelease(c)

PipeNext == SrcStage \/ MuxStage \/ OutStage \/ ChannelStep

PipeSpec == PipeInit /\ [][PipeNext]_vars

\* ------------------------------------------- one slot, write after write
\* The endpoints and histories of a specification that does not use them.
ThreadsIdle ==
  /\ wpc = [c \in Chans |-> "idle"]
  /\ rpc = [c \in Chans |-> "idle"]
  /\ woff = [c \in Chans |-> 0]
  /\ roff = [c \in Chans |-> 0]
  /\ seen = [c \in Chans |-> <<>>]
  /\ emitted = [c \in Chans |-> <<>>]
  /\ observed = [c \in Chans |-> <<>>]
  /\ reads_after_drop = [c \in Chans |-> 0]
  /\ run = RunNew(Unknown)

\* The payload sizes of the writes to the slot: none, small, exactly the
\* initial capacity, and beyond it.
Sizes == {0, 1, DataCapacity, DataCapacity + 1, 2 * DataCapacity + 1}

\* Sink::write on the slot: data.reinitialize()
SlotReinit ==
  /\ slot.pc = "idle"
  /\ slot.writes < MaxReuse
  /\ slot' = [slot EXCEPT !.rec = reinitialize(slot.kind, @),
                          !.capacity = CapacityAfterTruncate(@, 0),
                          !.pc = "mutate"]
  /\ UNCHANGED <<channel, wpc, rpc, woff, roff, seen, emitted, observed, reads_after_drop, run,
                 feed, bvars, stream, bitstream, call, returned>>

\* ... then f(data), the mutator of Buffer::run for a chunk of write_len
\* bytes: data.grow(write_len - len, 0) if len < write_len, the bytes are
\* copied in, data.truncate(write_len), binary.last = last.
SlotMutate ==
  /\ slot.pc = "mutate"
  /\ \E write_len \in Sizes, last \in BOOLEAN :
       LET len == Len(slot.rec.data)
           more == IF len < write_len THEN write_len - len ELSE 0
           input == [i \in 1..write_len |-> slot.writes + 1]
           grown == grow(slot.rec.data, more, 0)
           data == SubSeq(copy_memory(grown, input), 1, write_len)
       IN \E reserved \in ReserveOutcomes(slot.capacity, len, more) :
            slot' = [slot EXCEPT !.rec.data = data,
                                 !.rec.last = last,
                                 !.capacity = CapacityAfterTruncate(reserved, write_len),
                                 !.writes = @ + 1,
                                 !.pc = "idle"]
  /\ UNCHANGED <<channel, wpc, rpc, woff, roff, seen, emitted, observed, reads_after_drop, run,
                 feed, bvars, stream, bitstream, call, returned>>

\* A slot of either record type, as create leaves it.
ReuseInit ==
  /\ channel = [c \in Chans |-> create(c, 1)]
  /\ ThreadsIdle
  /\ \E c \in Chans : slot = SlotNew(c)
  /\ StreamIdle
  /\ BufferIdle

ReuseNext == SlotReinit \/ SlotMutate

ReuseSpec == ReuseInit /\ [][ReuseNext]_vars

\* ------------------------------------------------------ the stream reader
\* A producer thread emits the records of `feed` on the Binary channel and
\* drops its Sink; the consumer thread owns the Source, wraps it in a Stream
\* (and the Stream in a Bitstream) and makes calls on it.

\* The byte at offset j of the stream fed: 0x01, 0xFF, 0x01, ..
ByteAt(j) == IF j % 2 = 0 THEN 1 ELSE 255

\* the bytes of the stream from offset `from` on, cut into records of the
\* lengths lens
RECURSIVE Cut(_, _)
Cut(lens, from) ==
  IF lens = <<>> THEN <<>>
  ELSE <<[j \in 1..Head(lens) |-> ByteAt(from + j - 1)]>>
       \o Cut(Tail(lens), from + Head(lens))

\* The feeds: the stream cut into up to MaxRecords records of up to MaxLen
\* bytes each, of which only the final one may be terminal (a feed without
\* a terminal record ends by the drop of the Sink).
Feeds ==
  UNION {{[i \in 1..k |-> [last |-> (i = k /\ final), data |-> Cut(lens, 0)[i]]] :
            lens \in [1..k -> 0..MaxLen], final \in BOOLEAN} : k \in 0..MaxRecords}

\* ---- the producer: while records remain { sink.write(..) }
FeedCall ==
  /\ Len(emitted[G]) < Len(feed)
  /\ CallWrite(G)
  /\ UNCHANGED <<channel, rpc, woff, roff, seen, emitted, observed, reads_after_drop, run, svars, bvars>>

\* Its mutator: the data is grown to the length of the record's, the bytes
\* are copied in and the terminal flag is set.
FeedMutate ==
  /\ wpc[G] = "mutate"
  /\ LET rec == feed[Len(emitted[G]) + 1] IN
       channel' = [channel EXCEPT ![G].data[woff[G]] =
         [last |-> rec.last,
          data |-> copy_memory(grow(@.data, Len(rec.data), 0), rec.data)]]
  /\ emitted' = [emitted EXCEPT ![G] = Append(@, channel'[G].data[woff[G]])]
  /\ wpc' = [wpc EXCEPT ![G] = "release"]
  /\ UNCHANGED <<rpc, woff, roff, seen, observed, reads_after_drop, run, svars, bvars>>

\* The producer returns after its final record, or write panicked: the Sink
\* is dropped.
FeedDrop ==
  /\ wpc[G] \in {"idle", "panic"}
  /\ (wpc[G] = "idle") => (Len(emitted[G]) = Len(feed))
  /\ SinkDrop(G)
  /\ UNCHANGED <<rpc, woff, roff, seen, emitted, observed, reads_after_drop, run, svars, bvars>>

\* ---- what a call returns
\* Some(count) of try_read (with the bytes placed in the buffer) and try_skip
Some(count, bytes) ==
  [kind |-> "Some", count |-> count, bytes |-> bytes, value |-> <<>>, error |-> "none"]

\* None of try_read and try_skip
None == [kind |-> "None", count |-> 0, bytes |-> <<>>, value |-> <<>>, error |-> "none"]

\* the return of skip
Unit == [kind |-> "Unit", count |-> 0, bytes |-> <<>>, value |-> <<>>, error |-> "none"]

\* the return of read: the buffer, filled
Filled(bytes) ==
  [kind |-> "Filled", count |-> Len(bytes), bytes |-> bytes, value |-> <<>>, error |-> "none"]

\* the return of read_at_least: the number of bytes read, with the bytes
\* placed in the buffer
Count(count, bytes) ==
  [kind |-> "Count", count |-> count, bytes |-> bytes, value |-> <<>>, error |-> "none"]

\* the integer a typed read or read_n returns
Value(v) == [kind |-> "Value", count |-> 0, bytes |-> <<>>, value |-> v, error |-> "none"]

\* a panic that unwinds out of the call
Panic(error) ==
  [kind |-> "Panic", count |-> 0, bytes |-> <<>>, value |-> <<>>, error |-> error]

\* ---- where a call stands after a step of the consumer thread
\* the call goes on, as k
Go(k) == [call |-> k, bitstream |-> bitstream, ended |-> FALSE, outcome |-> Unit]

\* the call has ended with outcome o
End(k, o) == [call |-> k, bitstream |-> bitstream, ended |-> TRUE, outcome |-> o]

\* read_n has ended with outcome o and left the Bitstream as bs
EndBits(k, o, bs) == [call |-> k, bitstream |-> bs, ended |-> TRUE, outcome |-> o]

\* std::cmp::min
cmp_min(a, b) == IF a < b THEN a ELSE b

\* the bytes of a buffer as one word, first byte most significant
RECURSIVE Flat(_)
Flat(bytes) == IF bytes = <<>> THEN <<>> ELSE Bits(Head(bytes), 8) \o Flat(Tail(bytes))

\* a buffer in the opposite order
Reverse(bytes) == [i \in 1..Len(bytes) |-> bytes[Len(bytes) + 1 - i]]

\* mem::transmute::<[u8; N], [uN; 1]>(buffer)[0] on a little-endian target:
\* the first byte is the least significant
transmute(buffer) == Flat(Reverse(buffer))

\* x.swap_bytes(): the bytes of x in the opposite order
swap_bytes(x) ==
  [i \in 1..Len(x) |-> x[((Len(x) \div 8) - 1 - ((i - 1) \div 8)) * 8 + ((i - 1) % 8) + 1]]

\* Int::from_be, Int::from_le on a little-endian target
from_be(x) == swap_bytes(x)
from_le(x) == x

\* fn extend_sign_bits(value: u64, n: usize) -> i64
extend_sign_bits(value, n) == LET shift == 64 - n IN Sar(Shl(value, shift), shift)

\* fn extend_sign(value: u64, n: usize) -> i64
extend_sign(value, n) == extend_sign_bits(value, n * 8)

\* ---- the calls of the consumer
\* the reads that loop over read_u8
BeLoops == {"read_be_usize_n", "read_be_int_n", "read_n", "read_n_signed"}
LeLoops == {"read_le_usize_n", "read_le_int_n"}

\* The calls the consumer may make, each with its argument n: the length
\* of the buffer handed to try_read, read and read_at_least, the amount of
\* try_skip and skip, the number of bytes of a typed read, the number of
\* bits of read_n and read_n_signed; min is the `min` of read_at_least.
Calls ==
  [op : {"try_read", "try_skip", "read", "skip"}, n : 0..(MaxLen + 1), min : {0}]
  \cup [op : {"read_at_least"}, n : {1, MaxLen + 1}, min : {0, 1, 2}]
  \cup [op : {"read_u8", "read_i8"}, n : {1}, min : {0}]
  \cup [op : {"read_ne_u16", "read_be_u16", "read_le_u16",
              "read_ne_i16", "read_be_i16", "read_le_i16"}, n : {2}, min : {0}]
  \cup [op : {"read_ne_u32", "read_be_u32", "read_le_u32",
              "read_ne_i32", "read_be_i32", "read_le_i32"}, n : {4}, min : {0}]
  \cup [op : {"read_ne_u64", "read_be_u64", "read_le_u64",
              "read_ne_i64", "read_be_i64", "read_le_i64"}, n : {8}, min : {0}]
  \cup [op : {"read_be_usize_n", "read_le_usize_n", "read_be_int_n", "read_le_int_n"},
        n : {0, 1, 2, 8, 9}, min : {0}]
  \cup [op : {"read_n"}, n : {0, 1, 8, 9, 32, 33}, min : {0}]
  \cup [op : {"read_n_signed"}, n : {0, 1, 32, 33}, min : {0}]

\* What read_n and read_n_signed return for the bits v: read_n_signed gives
\* extend_sign_bits(v as u64, n) as i32.  For n = 0 its shift is as wide as
\* the type: a checked build panics (an outcome taken with the mask), an
\* unchecked one shifts by 64 mod 64 and leaves the value.
BitsValue(k, v) ==
  IF k.op = "read_n_signed" /\ k.n > 0
    THEN Value(Trunc(extend_sign_bits(Zext(v, 64), k.n), 32))
    ELSE Value(v)

\* read_n, else branch, after stream.read_be_usize_n(b_to_read) returned
\* k.result: the cache bits are put in front of the bytes read, the top n
\* bits are returned and the rest is left in the cache.
ReadNFill(k) ==
  LET n_to_read == k.n - bitstream.cache_length
      b_to_read == k.bytes
      sum == Or(Shl(Zext(bitstream.cache, 64), b_to_read * 8), k.result)
      cache_length == b_to_read * 8 - n_to_read
      result == Shr(sum, cache_length)
      cache == Trunc(And(sum, Shr(Zext(Bits(255, 8), 64), 8 - cache_length)), 8)
  IN EndBits(k, BitsValue(k, Trunc(result, 32)),
             [cache |-> cache, cache_length |-> cache_length])

\* The loop over read_u8 has run n times: read_*_usize_n returns result,
\* read_*_int_n returns extend_sign(result, n), read_n goes on.
AfterLoop(k) ==
  CASE k.op \in {"read_be_usize_n", "read_le_usize_n"} -> End(k, Value(k.result))
    [] k.op \in {"read_be_int_n", "read_le_int_n"} ->
         End(k, Value(extend_sign(k.result, k.n)))
    [] OTHER -> ReadNFill(k)

\* for i in 0..n { result = result | ((self.read_u8() as u64) << ..) }: the
\* next read_u8, a read into a buffer of one byte, or the end of the loop
LoopU8(k) ==
  IF k.i < k.bytes
    THEN Go([k EXCEPT !.min = 1, !.size = 1, !.read = 0, !.out = <<>>, !.pc = "try"])
    ELSE AfterLoop(k)

\* read(buffer) has returned, the buffer filled with k.out
AfterRead(k) ==
  CASE k.op = "read" -> End(k, Filled(k.out))
    [] k.op \in {"read_u8", "read_i8"} -> End(k, Value(Bits(k.out[1], 8)))
    [] k.op \in {"read_ne_u16", "read_ne_u32", "read_ne_u64",
                 "read_ne_i16", "read_ne_i32", "read_ne_i64"} ->
         End(k, Value(transmute(k.out)))
    [] k.op \in {"read_be_u16", "read_be_u32", "read_be_u64",
                 "read_be_i16", "read_be_i32", "read_be_i64"} ->
         End(k, Value(from_be(transmute(k.out))))
    [] k.op \in {"read_le_u16", "read_le_u32", "read_le_u64",
                 "read_le_i16", "read_le_i32", "read_le_i64"} ->
         End(k, Value(from_le(transmute(k.out))))
    [] OTHER ->
         LET byte == Zext(Bits(k.out[1], 8), 64)
             shift == IF k.op \in LeLoops THEN 8 * k.i ELSE 8 * (k.bytes - k.i - 1)
         IN LoopU8([k EXCEPT !.result = Or(@, Shl(byte, shift)), !.i = @ + 1])

\* read_at_least: a min beyond the buffer is refused; while read < min
\* { try_read(buffer.slice_from_mut(read)) }; return read.  read, its caller
\* with min the length of the buffer, then checks the count against that
\* length.
ReadAtLeast(k) ==
  IF k.min > k.size THEN End(k, Panic("BufferTooShort"))
  ELSE IF k.read < k.min THEN Go([k EXCEPT !.pc = "try"])
  ELSE IF k.op = "read_at_least" THEN End(k, Count(k.read, k.out))
  ELSE IF k.read # k.size THEN End(k, Panic("UnexpectedLength"))
  ELSE AfterRead(k)

\* try_read or try_skip has returned res to the call k
Returned(k, res) ==
  CASE k.op \in {"try_read", "try_skip"} -> End(k, res)
    [] k.op = "skip" ->
         IF res.kind = "None" THEN End(k, Panic("UnexpectedEof"))
         ELSE IF res.count = 0 THEN End(k, Panic("NoProgress"))
         ELSE IF k.read + res.count < k.n
                THEN Go([k EXCEPT !.read = @ + res.count, !.pc = "try"])
                ELSE End([k EXCEPT !.read = @ + res.count], Unit)
    [] OTHER ->
         IF res.kind = "None" THEN End(k, Panic("UnexpectedEof"))
         ELSE IF res.count = 0 THEN End(k, Panic("NoProgress"))
         ELSE ReadAtLeast([k EXCEPT !.read = @ + res.count, !.out = @ \o res.bytes])

\* 0xFF >> (8 - cache_length) where the cache is a u8.  With cache_length 0
\* the shift is as wide as the type: a checked build panics, an unchecked
\* one shifts by 8 mod 8 (0xFF) or clears the value (0).  `sign` is the
\* panic of the sign extension of read_n_signed, after read_n has returned.
Masks(cache_length) ==
  IF cache_length = 0
    THEN {[panic |-> TRUE, bits |-> Zero(8), sign |-> FALSE],
          [panic |-> FALSE, bits |-> Bits(255, 8), sign |-> FALSE],
          [panic |-> FALSE, bits |-> Zero(8), sign |-> FALSE]}
    ELSE {[panic |-> FALSE, bits |-> Shr(Bits(255, 8), 8 - cache_length), sign |-> FALSE]}

\* The masks the call c can meet on its way.  In a checked build
\* read_n_signed(0) panics: in read_n on the mask when the cache is empty,
\* else, read_n having masked the cache and returned, on the shift by 64 of
\* extend_sign_bits.
MasksOf(c) ==
  IF c.op \in {"read_n", "read_n_signed"} /\ c.n <= bitstream.cache_length
    THEN Masks(bitstream.cache_length - c.n)
         \cup (IF c.op = "read_n_signed" /\ c.n = 0 /\ bitstream.cache_length > 0
                 THEN {[m EXCEPT !.sign = TRUE] : m \in Masks(bitstream.cache_length)}
                 ELSE {})
    ELSE {[panic |-> FALSE, bits |-> Zero(8), sign |-> FALSE]}

\* read_n up to its read from the stream: more than 32 bits are refused; n
\* bits are taken from the cache if it has them; else the bytes that hold
\* the missing bits are read.
ReadN(k, mask) ==
  IF k.n > 32 THEN End(k, Panic("Argument"))
  ELSE IF k.n <= bitstream.cache_length
    THEN LET result == Shr(bitstream.cache, bitstream.cache_length - k.n)
             cache_length == bitstream.cache_length - k.n
         IN IF mask.panic
              THEN EndBits(k, Panic("Overflow"),
                           [bitstream EXCEPT !.cache_length = cache_length])
            ELSE IF mask.sign
              THEN EndBits(k, Panic("Overflow"),
                           [cache |-> And(bitstream.cache, mask.bits),
                            cache_length |-> cache_length])
              ELSE EndBits(k, BitsValue(k, Zext(result, 32)),
                           [cache |-> And(bitstream.cache, mask.bits),
                            cache_length |-> cache_length])
    ELSE LET n_to_read == k.n - bitstream.cache_length
             b_to_read == n_to_read \div 8 + (IF n_to_read % 8 > 0 THEN 1 ELSE 0)
         IN LoopU8([k EXCEPT !.bytes = b_to_read])

\* The call c from its entry to its first try_read or try_skip, or to its
\* end if it makes none.
Enter(c, mask) ==
  LET k == [CallNew EXCEPT !.op = c.op, !.n = c.n, !.pre = stream,
                           !.at = call.consumed, !.consumed = call.consumed]
  IN CASE c.op = "try_read" -> Go([k EXCEPT !.size = c.n, !.pc = "try"])
       [] c.op = "try_skip" -> Go([k EXCEPT !.pc = "try"])
       [] c.op = "skip" -> IF 0 < c.n THEN Go([k EXCEPT !.pc = "try"]) ELSE End(k, Unit)
       [] c.op \in {"read_n", "read_n_signed"} -> ReadN(k, mask)
       [] c.op \in BeLoops \cup LeLoops ->
            IF c.n > 0 /\ c.n <= 8
              THEN LoopU8([k EXCEPT !.bytes = c.n])
              ELSE End(k, Panic("Precondition"))
       [] c.op = "read_at_least" -> ReadAtLeast([k EXCEPT !.min = c.min, !.size = c.n])
       [] OTHER -> ReadAtLeast([k EXCEPT !.min = c.n, !.size = c.n])

\* what `returned` keeps of a call that has ended: the call, the bytes the
\* stream had handed out before it (at) and after it (end), the Stream
\* before and after it, the records it pulled, and its outcome
Entry(k, o, post) ==
  [op |-> k.op, n |-> k.n, at |-> k.at, end |-> k.consumed, pre |-> k.pre,
   post |-> post, pulled |-> k.pulled, kind |-> o.kind, count |-> o.count,
   bytes |-> o.bytes, value |-> o.value, error |-> o.error]

\* The consumer thread goes on from r: the call continues, or has ended and
\* is entered into `returned` (after a panic no further call is made).
Settle(r) ==
  /\ bitstream' = r.bitstream
  /\ IF r.ended
       THEN /\ returned' = Append(returned, Entry(r.call, r.outcome, stream'))
            /\ call' = [CallNew EXCEPT
                 !.consumed = r.call.consumed,
                 !.pc = IF r.outcome.kind = "Panic" THEN "panic" ELSE "idle"]
       ELSE /\ call' = r.call
            /\ UNCHANGED returned

\* ---- the steps of the consumer thread
\* The consumer makes its next call.
StreamCall ==
  /\ call.pc = "idle"
  /\ rpc[G] = "idle"
  /\ Len(returned) < MaxCalls
  /\ UNCHANGED stream
  /\ \E c \in Calls : \E mask \in MasksOf(c) : Settle(Enter(c, mask))
  /\ UNCHANGED <<channel, wpc, rpc, woff, roff, seen, emitted, observed, reads_after_drop, run,
                 slot, feed, bvars>>

\* mutant: try_read and try_skip pull the next record whenever the current
\* one is used up, whether it was the terminal one or not
TryEnterForgetsLast ==
  /\ call.pc = "try"
  /\ IF stream.position = stream.length
       THEN /\ CallRead(G)
            /\ call' = [call EXCEPT !.pc = "update"]
            /\ UNCHANGED <<stream, bitstream, returned>>
       ELSE /\ call' = [call EXCEPT !.pc = "copy"]
            /\ UNCHANGED <<stream, bitstream, returned, rpc, reads_after_drop>>
  /\ UNCHANGED <<channel, wpc, woff, roff, seen, emitted, observed, run, slot, feed, bvars>>

\* try_read, try_skip: if self.position == self.length { if self.last
\* { return None } else { self.update_buffer() } }; update_buffer calls
\* s.read(..) on the Source.
TryEnter ==
  /\ call.pc = "try"
  /\ IF stream.position = stream.length
       THEN IF stream.last
              THEN /\ UNCHANGED <<stream, rpc, reads_after_drop>>
                   /\ Settle(Returned(call, None))
              ELSE /\ CallRead(G)
                   /\ call' = [call EXCEPT !.pc = "update"]
                   /\ UNCHANGED <<stream, bitstream, returned>>
       ELSE /\ call' = [call EXCEPT !.pc = "copy"]
            /\ UNCHANGED <<stream, bitstream, returned, rpc, reads_after_drop>>
  /\ UNCHANGED <<channel, wpc, woff, roff, seen, emitted, observed, run, slot, feed, bvars>>

\* The observer of update_buffer: eof = binary.last; len = binary.data.len();
\* if b.len() < len { b.reserve(len - b.len()) }, which raises the capacity
\* of b and leaves its length; b.slice_mut(0, len) panics when len is beyond
\* b.len(); else the data is copied to the head of b.
UpdateObserve ==
  /\ call.pc = "update"
  /\ rpc[G] = "observe"
  /\ LET binary == channel[G].data[roff[G]]
         len == Len(binary.data)
         l == Len(stream.buffer)
         k == [call EXCEPT !.eof = binary.last, !.len = len, !.pulled = Append(@, binary)]
     IN \E capacity \in (IF l < len THEN ReserveOutcomes(stream.capacity, l, len - l)
                                    ELSE {stream.capacity}) :
          IF len > l
            THEN /\ stream' = [stream EXCEPT !.capacity = capacity]
                 /\ rpc' = [rpc EXCEPT ![G] = "panic"]
                 /\ Settle(End(k, Panic("SliceIndex")))
                 /\ UNCHANGED observed
            ELSE /\ stream' = [stream EXCEPT !.capacity = capacity,
                                             !.buffer = copy_memory(@, binary.data)]
                 /\ rpc' = [rpc EXCEPT ![G] = "release"]
                 /\ call' = k
                 /\ observed' = [observed EXCEPT ![G] = Append(@, binary)]
                 /\ UNCHANGED <<bitstream, returned>>
  /\ UNCHANGED <<channel, wpc, woff, roff, seen, emitted, reads_after_drop, run, slot, feed, bvars>>

\* s.read has returned: self.position = 0; self.length = len; self.last = eof
UpdateReturn ==
  /\ call.pc = "update"
  /\ rpc[G] = "idle"
  /\ stream' = [stream EXCEPT !.position = 0, !.length = call.len, !.last = call.eof]
  /\ call' = [call EXCEPT !.pc = "copy"]
  /\ UNCHANGED <<channel, wpc, rpc, woff, roff, seen, emitted, observed, reads_after_drop, run,
                 slot, feed, bvars, bitstream, returned>>

\* s.read has panicked (the Sink is dropped and nothing is buffered): the
\* panic unwinds out of the call.
UpdateUnwind ==
  /\ call.pc = "update"
  /\ rpc[G] = "panic"
  /\ UNCHANGED stream
  /\ Settle(End(call, Panic("PeerGone")))
  /\ UNCHANGED <<channel, wpc, rpc, woff, roff, seen, emitted, observed, reads_after_drop, run,
                 slot, feed, bvars>>

\* mutant: the advance is not bounded by what the Stream's buffer holds
TryCopyUnbounded ==
  /\ call.pc = "copy"
  /\ LET skipping == call.op \in {"try_skip", "skip"}
         write_len == IF skipping THEN call.n ELSE call.size - call.read
     IN /\ stream' = [stream EXCEPT !.position = @ + write_len]
        /\ Settle(Returned([call EXCEPT !.consumed = @ + write_len],
                           Some(write_len, [i \in 1..write_len |-> 0])))
  /\ UNCHANGED <<channel, wpc, rpc, woff, roff, seen, emitted, observed, reads_after_drop, run,
                 slot, feed, bvars>>

\* The rest of try_read: write_len = min(buffer.len(), self.buffer.len() -
\* self.position) bytes are copied from self.position on, self.position +=
\* write_len, Some(write_len).  The rest of try_skip: the same with
\* skip_len = min(amount, ..) and no copy; skip hands it its whole amount on
\* every turn of its loop.  self.position <= self.buffer.len() here: it is 0
\* after update_buffer and asserted at the end of both.
TryCopy ==
  /\ call.pc = "copy"
  /\ LET skipping == call.op \in {"try_skip", "skip"}
         want == IF skipping THEN call.n ELSE call.size - call.read
         write_len == cmp_min(want, Len(stream.buffer) - stream.position)
         bytes == IF skipping THEN <<>>
                  ELSE SubSeq(stream.buffer, stream.position + 1,
                              stream.position + write_len)
     IN /\ stream' = [stream EXCEPT !.position = @ + write_len]
        /\ Settle(Returned([call EXCEPT !.consumed = @ + write_len],
                           Some(write_len, bytes)))
  /\ UNCHANGED <<channel, wpc, rpc, woff, roff, seen, emitted, observed, reads_after_drop, run,
                 slot, feed, bvars>>

\* The consumer thread ends, between two calls or by the unwinding of a
\* panic: the Source is dropped.
ReaderDrop ==
  /\ call.pc \in {"idle", "panic"}
  /\ rpc[G] \in {"idle", "panic"}
  /\ SourceDrop(G)
  /\ UNCHANGED <<wpc, woff, roff, seen, emitted, observed, reads_after_drop, run, svars, bvars>>

\* The state after create(capacity), for a capacity of at least 1, with the
\* producer given its feed and nothing read yet.
StreamInit ==
  /\ \E capacity \in {1, MaxCap} :
       channel = [c \in Chans |-> create(c, IF c = G THEN capacity ELSE 1)]
  /\ ThreadsIdle
  /\ ReuseIdle
  /\ BufferIdle
  /\ feed \in Feeds
  /\ stream = StreamNew
  /\ bitstream = BitstreamNew
  /\ call = CallNew
  /\ returned = <<>>

StreamNext ==
  \/ FeedCall
  \/ WriteCheck(G)
  \/ WriteAcquire(G)
  \/ WriteFetch(G)
  \/ WriteReinit(G)
  \/ FeedMutate
  \/ WriteRelease(G)
  \/ FeedDrop
  \/ StreamCall
  \/ TryEnter
  \/ ReadCheck(G)
  \/ ReadCheckEmpty(G)
  \/ ReadAcquire(G)
  \/ ReadFetch(G)
  \/ UpdateObserve
  \/ ReadRelease(G)
  \/ UpdateReturn
  \/ UpdateUnwind
  \/ TryCopy
  \/ ReaderDrop

StreamSpec == StreamInit /\ [][StreamNext]_vars

\* ------------------------------------ the stream reader, a few calls only
\* The consumer of StreamSpec, making up to MaxTries calls of try_read,
\* try_skip, read, skip and read_n.

\* The calls of the reader: for no byte, and for more bytes than a record
\* holds; for one bit and for 32.
ReaderCalls ==
  {c \in Calls :
     \/ c.op \in {"try_read", "try_skip", "read", "skip"} /\ c.n \in {0, MaxLen + 1}
     \/ c.op = "read_n" /\ c.n \in {1, 32}}

\* The state after create(1) (as in the tests of the stream), with the
\* producer given its feed and nothing read yet.
ReaderInit ==
  /\ channel = [c \in Chans |-> create(c, 1)]
  /\ ThreadsIdle
  /\ ReuseIdle
  /\ BufferIdle
  /\ feed \in Feeds
  /\ stream = StreamNew
  /\ bitstream = BitstreamNew
  /\ call = CallNew
  /\ returned = <<>>

\* The reader makes its next call.
ReaderCall ==
  /\ call.pc = "idle"
  /\ rpc[G] = "idle"
  /\ Len(returned) < MaxTries
  /\ UNCHANGED stream
  /\ \E c \in ReaderCalls : \E mask \in MasksOf(c) : Settle(Enter(c, mask))
  /\ UNCHANGED <<channel, wpc, rpc, woff, roff, seen, emitted, observed, reads_after_drop, run,
                 slot, feed, bvars>>

ReaderNext ==
  \/ FeedCall
  \/ WriteCheck(G)
  \/ WriteAcquire(G)
  \/ WriteFetch(G)
  \/ WriteReinit(G)
  \/ FeedMutate
  \/ WriteRelease(G)
  \/ FeedDrop
  \/ ReaderCall
  \/ TryEnter
  \/ ReadCheck(G)
  \/ ReadCheckEmpty(G)
  \/ ReadAcquire(G)
  \/ ReadFetch(G)
  \/ UpdateObserve
  \/ ReadRelease(G)
  \/ UpdateReturn
  \/ UpdateUnwind
  \/ TryCopy
  \/ ReaderDrop

ReaderSpec == ReaderInit /\ [][ReaderNext]_vars


\* ------------------------------------------------------------ Buffer::run
\* A thread runs Buffer::run on the Sink of the Binary channel; a consumer
\* thread reads the records.

\* mutant: the record that ends exactly at the end of the input is not terminal
IsLastStrict(end, len) == end > len

\* last = end >= self.buffer.len()
IsLast(end, len) == end >= len

\* The bytes an input is made of.
ByteValues == {1, 255}

\* The inputs of a Buffer: the byte sequences of up to MaxInput bytes.
Inputs == UNION {[1..n -> ByteValues] : n \in 0..MaxInput}

\* while !last { write_len = min(chunk, buffer.len() - position); start =
\* position; end = position + write_len; last = end >= buffer.len();
\* self.sink.write(..) ..: one more turn of the loop, up to the call of write
BufferTurn ==
  /\ buf.pc = "top"
  /\ ~buf.last
  /\ Len(emitted[G]) < MaxWrites
  /\ LET write_len == cmp_min(buf.chunk, Len(buf.buffer) - buf.position)
         start == buf.position
         end == buf.position + write_len
     IN buf' = [buf EXCEPT !.write_len = write_len, !.start = start, !.end = end,
                           !.last = IsLast(end, Len(buf.buffer)), !.pc = "write"]
  /\ CallWrite(G)
  /\ UNCHANGED <<channel, rpc, woff, roff, seen, emitted, observed, reads_after_drop, run,
                 svars, quota>>

\* The mutator of run: binary.data.grow(write_len - len, 0) if len <
\* write_len; the bytes start..end are copied to the front of the data;
\* binary.data.truncate(write_len); binary.last = last.
BufferMutate ==
  /\ buf.pc = "write"
  /\ wpc[G] = "mutate"
  /\ LET binary == channel[G].data[woff[G]]
         len == Len(binary.data)
         grown == IF len < buf.write_len THEN grow(binary.data, buf.write_len - len, 0)
                                         ELSE binary.data
         input == SubSeq(buf.buffer, buf.start + 1, buf.end)
         data == SubSeq(copy_memory(grown, input), 1, buf.write_len)
     IN channel' = [channel EXCEPT ![G].data[woff[G]] = [last |-> buf.last, data |-> data]]
  /\ emitted' = [emitted EXCEPT ![G] = Append(@, channel'[G].data[woff[G]])]
  /\ wpc' = [wpc EXCEPT ![G] = "release"]
  /\ UNCHANGED <<rpc, woff, roff, seen, observed, reads_after_drop, run, svars, bvars>>

\* write has returned: self.position += write_len
BufferAdvance ==
  /\ buf.pc = "write"
  /\ wpc[G] = "idle"
  /\ buf' = [buf EXCEPT !.position = @ + buf.write_len, !.pc = "top"]
  /\ UNCHANGED <<channel, wpc, rpc, woff, roff, seen, emitted, observed, reads_after_drop, run,
                 svars, quota>>

\* while !last is over: run returns
BufferReturn ==
  /\ buf.pc = "top"
  /\ buf.last
  /\ buf' = [buf EXCEPT !.pc = "done"]
  /\ UNCHANGED <<channel, wpc, rpc, woff, roff, seen, emitted, observed, reads_after_drop, run,
                 svars, quota>>

\* The Buffer goes out of scope after run, or write panicked: the Sink is
\* dropped.
BufferDrop ==
  /\ \/ buf.pc = "done" /\ wpc[G] = "idle"
     \/ wpc[G] = "panic"
  /\ SinkDrop(G)
  /\ UNCHANGED <<rpc, woff, roff, seen, emitted, observed, reads_after_drop, run, svars, bvars>>

\* The state after create(capacity) and Buffer::new(buffer, chunk, sink), for
\* every input and every chunk size.
BufferInit ==
  /\ \E capacity \in {1, MaxCap} :
       channel = [c \in Chans |-> create(c, IF c = G THEN capacity ELSE 1)]
  /\ ThreadsIdle
  /\ ReuseIdle
  /\ StreamIdle
  /\ \E buffer \in Inputs, chunk \in 0..MaxChunk : buf = BufferNew(buffer, chunk)
  /\ quota = 0

BufferNext ==
  \/ BufferTurn
  \/ WriteCheck(G)
  \/ WriteAcquire(G)
  \/ WriteFetch(G)
  \/ WriteReinit(G)
  \/ BufferMutate
  \/ WriteRelease(G)
  \/ BufferAdvance
  \/ BufferReturn
  \/ BufferDrop
  \/ Consumer

BufferSpec == BufferInit /\ [][BufferNext]_vars

\* ------------------------------------- k writes against k reads, in threads
\* A producer thread performs `quota` writes and drops its Sink, a consumer
\* thread performs `quota` reads and drops its Source; each endpoint lives
\* until its last operation has returned.

\* The producer calls its next write.
QuotaWrite ==
  /\ Len(emitted[G]) < quota
  /\ CallWrite(G)
  /\ UNCHANGED <<channel, rpc, woff, roff, seen, emitted, observed, reads_after_drop, run,
                 svars, bvars>>

\* The producer thread ends after its last write: the Sink is dropped.
QuotaSinkDrop ==
  /\ wpc[G] = "idle"
  /\ Len(emitted[G]) = quota
  /\ SinkDrop(G)
  /\ UNCHANGED <<rpc, woff, roff, seen, emitted, observed, reads_after_drop, run, svars, bvars>>

\* The consumer calls its next read.
QuotaRead ==
  /\ Len(observed[G]) < quota
  /\ CallRead(G)
  /\ UNCHANGED <<channel, wpc, woff, roff, seen, emitted, observed, run, svars, bvars>>

\* The consumer thread ends after its last read: the Source is dropped.
QuotaSourceDrop ==
  /\ rpc[G] = "idle"
  /\ Len(observed[G]) = quota
  /\ SourceDrop(G)
  /\ UNCHANGED <<wpc, woff, roff, seen, emitted, observed, reads_after_drop, run, svars, bvars>>

\* The state after create(capacity), for a capacity of at least 1, and the
\* spawning of the two threads with their number of operations.
ProgressInit ==
  /\ \E capacity \in 1..MaxCap :
       channel = [c \in Chans |-> create(c, IF c = G THEN capacity ELSE 1)]
  /\ ThreadsIdle
  /\ ReuseIdle
  /\ StreamIdle
  /\ buf = BufferNew(<<>>, 0)
  /\ quota \in 0..MaxWrites

\* the steps of the producer thread
ProducerThread ==
  \/ QuotaWrite
  \/ WriteCheck(G)
  \/ WriteAcquire(G)
  \/ WriteFetch(G)
  \/ WriteReinit(G)
  \/ ProducerMutateData
  \/ ProducerMutateLast
  \/ WriteRelease(G)
  \/ QuotaSinkDrop

\* the steps of the consumer thread
ConsumerThread ==
  \/ QuotaRead
  \/ ReadCheck(G)
  \/ ReadCheckEmpty(G)
  \/ ReadAcquire(G)
  \/ ReadFetch(G)
  \/ ConsumerObserveData
  \/ ConsumerObserveLast
  \/ ReadRelease(G)
  \/ QuotaSourceDrop

ProgressNext == ProducerThread \/ ConsumerThread

\* Each thread is scheduled again and again while it has a step to take (a
\* thread waiting in acquire has none until a permit is released).
ProgressSpec ==
  /\ ProgressInit
  /\ [][ProgressNext]_vars
  /\ WF_vars(ProducerThread)
  /\ WF_vars(ConsumerThread)



\* ------------------------------------------------------------- properties
\* positions of an endpoint that is inside write, respectively read
InWrite == {"check", "acquire", "fetch", "reinit", "mutate", "mutate_last", "release"}
InRead == {"check", "check_empty", "acquire", "fetch", "observe", "observe_last", "release"}

\* write holds a slot from the index fetch until its mutator has returned
Mutating(c) == wpc[c] \in {"reinit", "mutate", "mutate_last"}

\* read holds a slot from the index fetch until its observer has returned
Observing(c) == rpc[c] \in {"observe", "observe_last"}

\* Permits acquired by an operation in progress whose matching release is
\* not yet done.  An operation that a panic has unwound is no longer in
\* progress: it holds nothing, and the permit it had acquired is in neither
\* semaphore.
Held(c) ==
  (IF wpc[c] \in {"fetch", "reinit", "mutate", "mutate_last", "release"} THEN 1 ELSE 0)
  + (IF rpc[c] \in {"fetch", "observe", "observe_last", "release"} THEN 1 ELSE 0)

\* C1: FIFO delivery.  The i-th completed read observed exactly the data and
\* the terminal flag that the mutator of the i-th write set, for every i,
\* also when the writes outnumber the slots and slots are reused.
C1_FifoDelivery ==
  \A c \in Chans :
    /\ Len(observed[c]) <= Len(emitted[c])
    /\ \A i \in 1..Len(observed[c]) : observed[c][i] = emitted[c][i]

\* Three records went through a channel with fewer slots than that, and the
\* last one differs from the one that used its slot before.
C1_Witness ==
  /\ channel[G].capacity \in 1..2
  /\ Len(observed[G]) = 3
  /\ observed[G][3] # observed[G][3 - channel[G].capacity]

\* C2: slot exclusivity.  The reset and mutator of write and the observer of
\* read are never at work on the same slot, and an observer is at work only
\* on a slot whose mutator has returned.
C2_SlotExclusivity ==
  \A c \in Chans :
    /\ ~(Mutating(c) /\ Observing(c) /\ woff[c] = roff[c])
    /\ Observing(c) => Len(emitted[c]) >= channel[c].read

\* Both endpoints hold a slot at once (different ones), after a slot reuse.
C2_Witness ==
  /\ Mutating(G) /\ Observing(G)
  /\ channel[G].write > channel[G].capacity

\* C3: a consumer blocked in read (waiting on not_empty, nothing buffered)
\* when the producer endpoint is dropped without a terminal record does not
\* stay blocked forever: some step is still possible that takes its read
\* on to fail with PeerGone.
C3_BlockedReadIsWoken ==
  ( /\ channel[G].capacity >= 1
    /\ channel[G].rc_write = 0
    /\ \A i \in 1..Len(emitted[G]) : ~emitted[G][i].last
    /\ rpc[G] = "acquire"
    /\ channel[G].read = channel[G].write )
  => ENABLED Next

\* C4: when the consumer endpoint is dropped, a producer inside write does
\* not remain blocked forever waiting for a free slot: some step is still
\* possible (that takes it on to fail with PeerGone).
C4_WriterNotBlockedForever ==
  (channel[G].capacity >= 1 /\ channel[G].rc_read = 0 /\ wpc[G] \in InWrite)
  => ENABLED Next

\* C5: a read called after the producer endpoint dropped succeeds, without
\* blocking and on the next record in order, when a record is still buffered,
\* and fails with PeerGone when read_index = write_index; it fails only
\* then, once every emitted record has been observed.
C5_ReadAfterProducerDrop ==
  \A c \in Chans :
    (reads_after_drop[c] > 0) =>
      /\ rpc[c] \in {"panic", "failed"} =>
           /\ channel[c].read = channel[c].write
           /\ observed[c] = emitted[c]
      /\ rpc[c] \in {"acquire", "fetch"} => channel[c].read < channel[c].write
      /\ rpc[c] = "acquire" => channel[c].not_empty > 0
      /\ rpc[c] \in {"observe", "observe_last", "release"} =>
           /\ channel[c].read <= Len(emitted[c])
           /\ channel[c].data[roff[c]] = emitted[c][channel[c].read]

\* One non-terminal write, then the drop: the first read after it succeeded
\* and the second fails.
C5_Witness ==
  /\ reads_after_drop[G] = 2
  /\ rpc[G] = "panic"
  /\ Len(emitted[G]) = 1 /\ ~emitted[G][1].last
  /\ Len(observed[G]) = 1

\* C6: a write that finds the consumer endpoint dropped fails with PeerGone,
\* leaves the channel as it is and never invokes the mutator, whether or not
\* free slots remain.
C6_WriteAfterConsumerDrop ==
  [][\A c \in Chans :
       /\ (wpc[c] = "check" /\ channel[c].rc_read = 0 /\ wpc'[c] # "check")
            => (wpc'[c] = "panic" /\ channel'[c] = channel[c] /\ emitted'[c] = emitted[c])
       /\ (wpc[c] = "panic")
            => (wpc'[c] \in {"panic", "failed"} /\ channel'[c].data = channel[c].data
                /\ emitted'[c] = emitted[c])]_vars

\* A write failed although a free slot remained.
C6_Witness ==
  /\ wpc[G] = "panic"
  /\ channel[G].not_full > 0
  /\ channel[G].write > 0

\* C7: read_index <= write_index <= read_index + N.
C7_IndexInvariant ==
  \A c \in Chans :
    /\ channel[c].read <= channel[c].write
    /\ channel[c].write <= channel[c].read + channel[c].capacity

\* The ring is full after the read index has moved.
C7_Witness ==
  /\ channel[G].capacity = 2
  /\ channel[G].read = 1
  /\ channel[G].write = channel[G].read + channel[G].capacity

\* C8: permit conservation.  In every reachable state the permits of
\* not_empty, those of not_full and those held by a read or write in
\* progress add up to N (so not_empty + not_full = N whenever no operation
\* is in progress); not_empty = 0 and not_full = N as long as no write has
\* acquired a permit.
C8_PermitConservation ==
  \A c \in Chans :
    /\ channel[c].not_empty + channel[c].not_full + Held(c) = channel[c].capacity
    /\ (channel[c].write = 0 /\ Held(c) = 0) =>
         (channel[c].not_empty = 0 /\ channel[c].not_full = channel[c].capacity)

\* C9: create(0) is rejected: no channel of capacity 0 is ever produced.
C9_ZeroCapacityRejected == \A c \in Chans : channel[c].capacity >= 1

\* a stage has panicked
Failed(stage) ==
  CASE stage = "src" -> wpc[A] \in {"panic", "failed"}
    [] stage = "mux" -> rpc[A] \in {"panic", "failed"} \/ wpc[B] \in {"panic", "failed"}
    [] stage = "out" -> rpc[B] \in {"panic", "failed"}

\* a stage has ended, by returning or by a panic, and dropped its endpoints
Terminated(stage) ==
  CASE stage = "src" -> wpc[A] \in {"dropped", "failed"}
    [] stage = "mux" -> rpc[A] \in {"dropped", "failed"} /\ wpc[B] \in {"dropped", "failed"}
    [] stage = "out" -> rpc[B] \in {"dropped", "failed"}

\* C10: pipeline collapse.  Once a stage has failed, the pipeline comes to
\* rest only with every stage terminated: no stage is left blocked forever.
C10_PipelineCollapses ==
  ((\E stage \in {"src", "mux", "out"} : Failed(stage)) /\ ~ENABLED PipeNext)
  => \A stage \in {"src", "mux", "out"} : Terminated(stage)

\* the consumer of channel c has failed with PeerGone: its read panicked (a
\* panic of the observer inside the read is not one: the muxer's, on an
\* undeclared format, the output stage's, on a failed write to standard
\* output, update_buffer's, on b.slice_mut(0, len))
PeerGone(c) ==
  /\ rpc[c] \in {"panic", "failed"}
  /\ ~(c = A /\ run.mux.error # "none")
  /\ ~(c = B /\ run.out.error # "none")
  /\ ~(c = G /\ returned # <<>> /\ returned[Len(returned)].error = "SliceIndex")

\* the producer of channel c has emitted a record with the terminal flag
TerminalEmitted(c) ==
  /\ Len(emitted[c]) > 0
  /\ emitted[c][Len(emitted[c])].last

\* C11: clean shutdown.  Once the producer of a channel has emitted its
\* terminal record (after which it drops its endpoint), the consumer that
\* reads until the terminal record (no stage has stopped reading on an
\* error of its own: an undeclared format, a failed write to standard
\* output) never fails with PeerGone, whenever the drop happens, and when
\* the pipeline has come to rest it has observed every emitted record and
\* ended by returning.
C11_CleanShutdown ==
  \A c \in Chans :
    (TerminalEmitted(c) /\ run.mux.error = "none" /\ run.out.error = "none") =>
      /\ ~PeerGone(c)
      /\ \A i \in 1..Len(observed[c]) : observed[c][i] = emitted[c][i]
      /\ (~ENABLED PipeNext) => (observed[c] = emitted[c] /\ rpc[c] = "dropped")

\* The muxer dropped its Sink after the terminal record while the output
\* stage still had reads to call; the output stage drained all seven records
\* and returned.
C11_Witness ==
  /\ TerminalEmitted(B)
  /\ reads_after_drop[B] >= 1
  /\ rpc[B] = "dropped"
  /\ observed[B] = emitted[B]
  /\ Len(emitted[B]) > Len(emitted[A]) /\ Len(emitted[A]) >= 2

\* C12: reset before population.  The mutator of every write starts on a
\* record in the empty state: no data, terminal flag false and, for Audio,
\* no channels, sample rate 0, endian Big, sample type Unknown, whatever
\* the previous use of the slot left in it.
C12_ResetBeforePopulation ==
  \A c \in Chans :
    (wpc[c] = "mutate") =>
      LET rec == channel[c].data[woff[c]] IN
        /\ Len(rec.data) = 0
        /\ rec.last = FALSE
        /\ (c = A) => /\ rec.channels = 0
                      /\ rec.sample_rate = F64Zero
                      /\ rec.endian = "Big"
                      /\ rec.sample_type = Unknown

\* Mutators are about to run on reused slots of both channels: each slot
\* has been written before, with data and a declared format.
C12_Witness ==
  /\ wpc[A] = "mutate" /\ channel[A].write > channel[A].capacity
  /\ wpc[B] = "mutate" /\ channel[B].write > channel[B].capacity

\* C13: capacity is preserved by reuse.  No step on a slot lowers the
\* capacity of its data buffer; reinitialize empties the record (length 0,
\* flag false) and leaves the capacity as it is; a refill with a payload no
\* larger than the capacity before it leaves the capacity as it is.
C13_CapacityPreserved ==
  [][/\ slot'.capacity >= slot.capacity
     /\ (slot.pc = "idle" /\ slot'.pc = "mutate") =>
          /\ slot'.capacity = slot.capacity
          /\ Len(slot'.rec.data) = 0
          /\ ~slot'.rec.last
     /\ (slot.pc = "mutate" /\ slot'.pc = "idle"
         /\ Len(slot'.rec.data) <= slot.capacity) =>
          slot'.capacity = slot.capacity]_vars

\* A write outgrew the initial capacity, and a later write reused the slot
\* for a single byte: the grown capacity is still there.
C13_Witness ==
  /\ slot.writes >= 2
  /\ slot.pc = "idle"
  /\ slot.capacity > DataCapacity
  /\ Len(slot.rec.data) = 1

\* the bytes of the stream: the data of the records of the feed, in order
RECURSIVE DataOf(_)
DataOf(records) ==
  IF records = <<>> THEN <<>> ELSE Head(records).data \o DataOf(Tail(records))

StreamBytes == DataOf(feed)

\* the feed ends with a terminal record
FeedEnds == feed # <<>> /\ feed[Len(feed)].last

\* the bytes the calls that have ended placed in their buffers, in order
RECURSIVE BytesOf(_)
BytesOf(entries) ==
  IF entries = <<>> THEN <<>> ELSE Head(entries).bytes \o BytesOf(Tail(entries))

\* C14: stream byte conservation.  When try_read is called again and again,
\* no call fails (other than with PeerGone on a feed without terminal
\* record), the bytes returned so far are the first bytes of the data of
\* the emitted records in order, and once None is returned they are all of
\* them.
C14_ByteConservation ==
  (\A i \in 1..Len(returned) : returned[i].op = "try_read") =>
    LET got == BytesOf(returned) IN
      /\ \A i \in 1..Len(returned) :
           \/ returned[i].kind \in {"Some", "None"}
           \/ returned[i].error = "PeerGone" /\ ~FeedEnds
      /\ Len(got) <= Len(StreamBytes)
      /\ got = SubSeq(StreamBytes, 1, Len(got))
      /\ (\E i \in 1..Len(returned) : returned[i].kind = "None") => got = StreamBytes

\* C15: the result of try_read.  With unread bytes in the current record
\* (the one pulled by this call, if it pulled one) it copies min(|out|,
\* length - position) bytes from position on, advances position by that
\* count and returns it; called with position = length after the terminal
\* record it returns None.
C15_TryReadResult ==
  \A i \in 1..Len(returned) :
    LET e == returned[i]
        pulled == e.pulled # <<>>
        position == IF pulled THEN 0 ELSE e.pre.position
        length == IF pulled THEN Len(e.pulled[Len(e.pulled)].data) ELSE e.pre.length
        data == IF pulled THEN e.pulled[Len(e.pulled)].data ELSE e.pre.buffer
        count == cmp_min(e.n, length - position)
    IN (e.op = "try_read") =>
         /\ (position < length) =>
              /\ e.kind = "Some"
              /\ e.count = count
              /\ e.bytes = SubSeq(data, position + 1, position + count)
              /\ e.post.position = position + count
         /\ (e.pre.position = e.pre.length /\ e.pre.last) => e.kind = "None"

\* C16: skip is exact.  skip(amount) with at least amount bytes ahead
\* returns having advanced the stream by amount bytes, however the bytes
\* are divided into records, and a read_u8 that follows returns the byte at
\* that offset.
C16_SkipIsExact ==
  \A i \in 1..Len(returned) :
    LET e == returned[i] IN
      (e.op = "skip" /\ e.at + e.n <= Len(StreamBytes)) =>
        /\ e.kind = "Unit"
        /\ e.end = e.at + e.n
        /\ (i < Len(returned) /\ returned[i + 1].op = "read_u8"
            /\ e.at + e.n < Len(StreamBytes)) =>
             /\ returned[i + 1].kind = "Value"
             /\ returned[i + 1].value = Bits(StreamBytes[e.at + e.n + 1], 8)

\* C17: a premature end is UnexpectedEof.  read of k bytes on a stream that
\* ends (with a terminal record, whether it carries the last bytes or is
\* empty) with fewer than k bytes left fails with UnexpectedEof.
C17_PrematureEnd ==
  \A i \in 1..Len(returned) :
    LET e == returned[i] IN
      (e.op = "read" /\ FeedEnds /\ e.at + e.n > Len(StreamBytes)) =>
        (e.kind = "Panic" /\ e.error = "UnexpectedEof")

\* C18: typed integer reads.  With n bytes ahead, 1 <= n <= 8, the big- and
\* little-endian reads of n bytes consume n bytes and return their value
\* taken most, respectively least, significant byte first; the reads of
\* u16, u32 and u64 return the same as the reads of 2, 4 and 8 bytes.
C18_TypedReads ==
  \A i \in 1..Len(returned) :
    LET e == returned[i]
        bytes == SubSeq(StreamBytes, e.at + 1, e.at + e.n)
        be == {"read_be_usize_n", "read_be_u16", "read_be_u32", "read_be_u64"}
        le == {"read_le_usize_n", "read_le_u16", "read_le_u32", "read_le_u64"}
    IN (e.op \in be \cup le /\ e.n \in 1..8 /\ e.at + e.n <= Len(StreamBytes)) =>
         /\ e.kind = "Value"
         /\ e.end = e.at + e.n
         /\ Zext(e.value, 64) =
              Zext(Flat(IF e.op \in be THEN bytes ELSE Reverse(bytes)), 64)

\* C19: the sign-extension law.  read_be_int_n(n) on n bytes encoding u
\* big-endian returns u when u < 2^(8n-1) and u - 2^(8n) otherwise: the 64
\* bits returned are those of u below bit 8n and its top bit above (the
\* two's complement form of that number).
C19_SignExtension ==
  \A i \in 1..Len(returned) :
    LET e == returned[i]
        u == Flat(SubSeq(StreamBytes, e.at + 1, e.at + e.n))
    IN (e.op = "read_be_int_n" /\ e.n \in 1..8 /\ e.at + e.n <= Len(StreamBytes)) =>
         /\ e.kind = "Value"
         /\ e.value = [j \in 1..64 |-> IF j > 64 - 8 * e.n THEN u[j - (64 - 8 * e.n)]
                                                           ELSE u[1]]

\* the bits the read_n calls before the i-th asked for
RECURSIVE WidthsBefore(_)
WidthsBefore(i) == IF i <= 1 THEN 0 ELSE returned[i - 1].n + WidthsBefore(i - 1)

\* C20: the bit reader round trip.  Successive read_n(w) with widths in
\* 1..32 return the consecutive w-bit fields of the bytes of the stream,
\* most significant bit of each byte first, as long as the stream has the
\* bits.
C20_BitReaderRoundTrip ==
  (\A i \in 1..Len(returned) : returned[i].op = "read_n" /\ returned[i].n \in 1..32) =>
    \A i \in 1..Len(returned) :
      LET e == returned[i]
          from == WidthsBefore(i)
      IN (from + e.n <= 8 * Len(StreamBytes)) =>
           /\ e.kind = "Value"
           /\ e.value = Zext(SubSeq(Flat(StreamBytes), from + 1, from + e.n), 32)

\* C21: bit width validation.  read_n(n) with n outside 1..32 (n = 0 or
\* n > 32) fails with an argument error and returns no value.
C21_WidthValidation ==
  \A i \in 1..Len(returned) :
    (returned[i].op = "read_n" /\ returned[i].n \notin 1..32) =>
      (returned[i].kind = "Panic" /\ returned[i].error = "Argument")

\* C22: the output of Buffer::run.  For a chunk size of at least 1 every
\* record emitted has at most chunk bytes, the records in order are the
\* input up to where run has got, and a record is terminal exactly if it
\* completes the input; when run has returned the records make up the whole
\* input and the last one is terminal (an empty input gives one record,
\* terminal and empty).
C22_BufferOutput ==
  (buf.chunk >= 1) =>
    LET out == emitted[G]
        upto(i) == DataOf(SubSeq(out, 1, i))
    IN /\ \A i \in 1..Len(out) :
            /\ Len(out[i].data) <= buf.chunk
            /\ out[i].last <=> (upto(i) = buf.buffer)
       /\ Len(upto(Len(out))) <= Len(buf.buffer)
       /\ upto(Len(out)) = SubSeq(buf.buffer, 1, Len(upto(Len(out))))
       /\ (buf.pc = "done") =>
            /\ out # <<>>
            /\ out[Len(out)].last
            /\ (buf.buffer = <<>>) => (out = <<[last |-> TRUE, data |-> <<>>]>>)

\* run has returned after it emitted an input longer than the chunk, the
\* remainder in a shorter terminal record
C22_Witness ==
  /\ buf.pc = "done"
  /\ buf.chunk >= 1
  /\ Len(emitted[G]) >= 2
  /\ Len(emitted[G][Len(emitted[G])].data) \in 1..(buf.chunk - 1)

\* C29: Buffer::run terminates.  For every input and every chunk size,
\* chunk = 0 included, a turn of the loop of run whose write has returned
\* either was the last one or has advanced position: run is never back at
\* the top of its loop in the state it began the turn in, from which it
\* would go on for ever emitting non-terminal records.
C29_BufferTerminates ==
  [][(buf.pc = "write" /\ buf'.pc = "top") =>
       (buf'.last \/ buf'.position > buf.position)]_vars

\* C23: the record sequence of the CAF muxer.  For an input whose first
\* record declares a sample type the muxer emits an 8-byte file header, a
\* 44-byte description chunk and a 12-byte data chunk header, none of them
\* terminal, then one record per input record with the same bytes and the
\* same terminal flag; when it has returned after k >= 1 input records it
\* has emitted 3 + k records, of which exactly the last is terminal.
C23_MuxerRecordSequence ==
  (run.src.sample_type # Unknown) =>
    LET in == emitted[A]
        out == emitted[B]
    IN /\ \A i \in 1..Len(out) :
            /\ (i = 1) => (Len(out[i].data) = 8 /\ ~out[i].last)
            /\ (i = 2) => (Len(out[i].data) = 44 /\ ~out[i].last)
            /\ (i = 3) => (Len(out[i].data) = 12 /\ ~out[i].last)
            /\ (i > 3) => /\ i - 3 <= Len(in)
                          /\ out[i].data = in[i - 3].data
                          /\ out[i].last = in[i - 3].last
       /\ (rpc[A] = "dropped" /\ wpc[B] = "dropped") =>
            /\ Len(in) >= 1
            /\ Len(out) = 3 + Len(in)
            /\ \A i \in 1..Len(out) : out[i].last <=> (i = Len(out))

\* the muxer has returned after it forwarded several input records
C23_Witness ==
  /\ run.src.sample_type # Unknown
  /\ rpc[A] = "dropped"
  /\ wpc[B] = "dropped"
  /\ Len(emitted[A]) >= 2
  /\ Len(emitted[B]) = 3 + Len(emitted[A])

\* C24: the format check of the CAF muxer.  If the first audio record has
\* sample type Unknown, the observer of that record never returns and no
\* write on the output is ever begun: the muxer fails, with the
\* format-not-declared error, having written no record.
C24_MuxerFormatCheck ==
  (run.src.sample_type = Unknown) =>
    /\ emitted[B] = <<>>
    /\ channel[B].write = 0
    /\ wpc[B] \in {"idle", "dropped"}
    /\ observed[A] = <<>>
    /\ rpc[A] # "release"
    /\ Failed("mux") => run.mux.error = "FormatUndeclared"

\* the muxer has failed on a first record of Unknown sample type
C24_Witness ==
  /\ emitted[A] # <<>>
  /\ emitted[A][1].sample_type = Unknown
  /\ run.mux.error = "FormatUndeclared"
  /\ rpc[A] = "failed"

\* C25: channel progress.  For a capacity of at least 1, with k writes
\* against k reads and both endpoints alive until their last operation has
\* returned, under fair scheduling of the two threads all 2k operations
\* complete (none panics), and at no time are the two endpoints both
\* blocked on their semaphores.
C25_ChannelProgress ==
  /\ [](~(/\ wpc[G] = "acquire" /\ channel[G].not_full = 0
          /\ rpc[G] = "acquire" /\ channel[G].not_empty = 0))
  /\ [](wpc[G] # "panic" /\ rpc[G] # "panic")
  /\ <>(/\ Len(emitted[G]) = quota
        /\ Len(observed[G]) = quota
        /\ wpc[G] = "dropped"
        /\ rpc[G] = "dropped")

\* more operations than slots have completed, so the producer had to wait
\* for slots to be handed back
C25_Witness ==
  /\ Len(emitted[G]) = quota
  /\ Len(observed[G]) = quota
  /\ wpc[G] = "dropped"
  /\ rpc[G] = "dropped"
  /\ quota > channel[G].capacity

\* C26: a failure leaves the channel unchanged.  A write or a read fails
\* with PeerGone only on its peer-alive check, before the acquire and the
\* increment of the index, and none of its steps up to the failure changes
\* the channel: its indices, its permits, its counts and its slots are as
\* the call found them.
C26_FailureLeavesChannel ==
  [][/\ (wpc'[G] # wpc[G] /\ wpc'[G] \in {"check", "panic"}) => channel' = channel
     /\ (wpc'[G] = "panic" /\ wpc[G] # "panic") =>
          (wpc[G] = "check" /\ channel[G].rc_read = 0)
     /\ (rpc'[G] # rpc[G] /\ rpc'[G] \in {"check", "check_empty", "panic"}) =>
          channel' = channel
     /\ (rpc'[G] = "panic" /\ rpc[G] # "panic") =>
          /\ rpc[G] = "check_empty"
          /\ channel[G].rc_write = 0
          /\ channel[G].read = channel[G].write]_vars

\* a write has failed with PeerGone while written records are still
\* buffered
C26_Witness ==
  /\ wpc[G] = "panic"
  /\ channel[G].rc_read = 0
  /\ channel[G].write > channel[G].read
  /\ channel[G].not_empty > 0

\* C27: the end of the stream is sticky.  Once the terminal record has been
\* taken in, no read on the channel is begun again; once try_read or
\* try_skip has returned None, every later try_read and try_skip returns
\* None, pulls no record and leaves the Stream as it is.
C27_EndIsSticky ==
  /\ stream.last => (rpc[G] \in {"idle", "dropped"} /\ call.pc # "update")
  /\ (\E i \in 1..Len(returned) : returned[i].kind = "None") => stream.last
  /\ \A i \in 1..Len(returned) : \A j \in (i + 1)..Len(returned) :
       (returned[i].kind = "None" /\ returned[j].op \in {"try_read", "try_skip"}) =>
         /\ returned[j].kind = "None"
         /\ returned[j].pulled = <<>>
         /\ returned[j].post = returned[i].post

\* None has been returned, and then again, to a try_read and to a try_skip
C27_Witness ==
  \E i \in 1..Len(returned) : \E j \in (i + 1)..Len(returned) :
    /\ returned[i].kind = "None"
    /\ returned[j].kind = "None"
    /\ returned[i].op # returned[j].op
    /\ returned[j].n > 0

\* C28: the position invariant of the Stream.  At all times 0 <= position
\* <= length; between two calls, after any sequence of calls that returned,
\* length is the size of the data of the record pulled last from the
\* channel (0 when none was pulled).
C28_PositionInvariant ==
  /\ 0 <= stream.position
  /\ stream.position <= stream.length
  /\ (call.pc = "idle") =>
       stream.length = (IF observed[G] = <<>> THEN 0
                        ELSE Len(observed[G][Len(observed[G])].data))

\* try_read and try_skip have each returned Some after pulling a record of
\* its own, and the reader is between two calls
C28_Witness ==
  /\ call.pc = "idle"
  /\ Len(observed[G]) >= 2
  /\ \E i \in 1..Len(returned) : \E j \in 1..Len(returned) :
       /\ returned[i].op = "try_read" /\ returned[i].n > 0
       /\ returned[i].kind = "Some" /\ returned[i].pulled # <<>>
       /\ returned[j].op = "try_skip" /\ returned[j].n > 0
       /\ returned[j].kind = "Some" /\ returned[j].pulled # <<>>

====
